---- MODULE Spec2Model ----
(***************************************************************************)
(* String Analyzer Service (index.js, the file the Dockerfile starts, and  *)
(* the second copy of the routes kept beside it).                          *)
(*                                                                         *)
(* A JavaScript string is a sequence of UTF-16 code units.  A code unit is *)
(* written here as a one-character TLA+ string ("a", " ", ","), and the    *)
(* three code units that have no such spelling as "<FFFD>" (U+FFFD, the    *)
(* replacement character), "<D83D>" (a high surrogate) and "<DE00>" (a low *)
(* surrogate; "<D83D>","<DE00>" together are U+1F600).                     *)
(***************************************************************************)
EXTENDS Integers, Sequences, FiniteSets, TLC

\* ------------------------------------------------------------------ bounds
MaxLen == 4      \* longest text handed to analyzeString in SpecAnalyze
MaxFrags == 4    \* most phrases joined into one query in SpecInterpret
MaxClock == 1    \* last millisecond of the clock in Spec

VARIABLES
  stringsByHash,   \* Map id -> record, in insertion order: a sequence of records
  hashByValue,     \* Map value -> id: a function on the stored values
  now,             \* the clock as new Date() last read it
  request,         \* the request being answered (op and its inputs)
  response,        \* the answer to it (status and body)
  live,            \* history: value -> the record its last successful create
                   \* returned, until a delete of that value succeeds
  inflight         \* the requests the server has received and the event loop
                   \* has yet to hand, or has handed, to their handlers

vars == <<stringsByHash, hashByValue, now, request, response, live, inflight>>

\* ------------------------------------------------------- code units, text
LowerLetters == <<"a","b","c","d","e","f","g","h","i","j","k","l","m",
                  "n","o","p","q","r","s","t","u","v","w","x","y","z">>
UpperLetters == <<"A","B","C","D","E","F","G","H","I","J","K","L","M",
                  "N","O","P","Q","R","S","T","U","V","W","X","Y","Z">>
Digits == <<"0","1","2","3","4","5","6","7","8","9">>

Range(s) == {s[i] : i \in DOMAIN s}

IndexOf(t, c) == CHOOSE i \in DOMAIN t : t[i] = c

LowerSet == Range(LowerLetters)
UpperSet == Range(UpperLetters)
DigitSet == Range(Digits)
WordSet == LowerSet \cup UpperSet \cup DigitSet \cup {"_"}
LowerOf == [c \in UpperSet |-> LowerLetters[IndexOf(UpperLetters, c)]]

\* The UTF-16 code unit value of a character of the model's alphabet.
Ord(c) ==
  CASE c \in LowerSet -> 96 + IndexOf(LowerLetters, c)
    [] c \in UpperSet -> 64 + IndexOf(UpperLetters, c)
    [] c \in DigitSet -> 47 + IndexOf(Digits, c)
    [] c = " " -> 32
    [] c = "\t" -> 9
    [] c = "," -> 44
    [] c = "+" -> 43
    [] c = "-" -> 45
    [] c = ":" -> 58
    [] c = "_" -> 95
    [] c = "<FFFD>" -> 65533
    [] c = "<D83D>" -> 55357
    [] c = "<DE00>" -> 56832

IsHighSurrogate(c) == Ord(c) >= 55296 /\ Ord(c) <= 56319
IsLowSurrogate(c) == Ord(c) >= 56320 /\ Ord(c) <= 57343

\* String.prototype.toLowerCase on one code unit of the alphabet.
LowerChar(c) ==
  IF c \in UpperSet THEN LowerOf[c] ELSE c

toLowerCase(s) == [i \in 1..Len(s) |-> LowerChar(s[i])]

\* s.split('').reverse().join(''): the code units in reverse order.
Reverse(s) == [i \in 1..Len(s) |-> s[Len(s) + 1 - i]]

\* \s of a regular expression, and the characters trim() removes.
IsWhitespace(c) == c \in {" ", "\t"}

\* [a-z0-9]
IsLowerAlnum(c) == c \in LowerSet \/ c \in DigitSet

\* \w
IsWordChar(c) == c \in WordSet

\* \d
IsDigit(c) == c \in DigitSet

\* s has sub at position i
HasAt(s, i, sub) ==
  /\ i >= 1
  /\ i + Len(sub) - 1 <= Len(s)
  /\ sub = <<>> \/ (s[i] = sub[1] /\ SubSeq(s, i, i + Len(sub) - 1) = sub)

\* s.includes(sub)
Includes(s, sub) == \E i \in 1..(Len(s) - Len(sub) + 1) : HasAt(s, i, sub)

\* s.replace(/[^a-z0-9]/g, '')
StripNonAlnum(s) == SelectSeq(s, IsLowerAlnum)

\* value.trim()
RECURSIVE TrimStart(_)
TrimStart(s) ==
  IF s # <<>> /\ IsWhitespace(Head(s)) THEN TrimStart(Tail(s)) ELSE s

trim(s) == Reverse(TrimStart(Reverse(TrimStart(s))))

\* s.split(/\s+/): the pieces between maximal runs of whitespace; a run at
\* either end leaves an empty piece there, and "" splits into [""].
RECURSIVE SplitFrom(_, _, _, _)
SplitFrom(s, i, cur, acc) ==
  IF i > Len(s) THEN Append(acc, cur)
  ELSE IF IsWhitespace(s[i])
    THEN IF i < Len(s) /\ IsWhitespace(s[i + 1])
           THEN SplitFrom(s, i + 1, cur, acc)
           ELSE SplitFrom(s, i + 1, <<>>, Append(acc, cur))
    ELSE SplitFrom(s, i + 1, Append(cur, s[i]), acc)

SplitWhitespace(s) == SplitFrom(s, 1, <<>>, <<>>)

\* Boolean(piece): the empty string is the only falsy string.
IsTruthyString(t) == t # <<>>

FilterBoolean_KeepAll(pieces) == pieces

\* pieces.filter(Boolean)
FilterBoolean(pieces) == SelectSeq(pieces, IsTruthyString)

\* for (const char of value): the string iterator yields code points; a high
\* surrogate followed by a low one is one character, a lone one is itself.
RECURSIVE CodePoints(_)
CodePoints(s) ==
  IF s = <<>> THEN <<>>
  ELSE IF Len(s) >= 2 /\ IsHighSurrogate(s[1]) /\ IsLowSurrogate(s[2])
    THEN <<SubSeq(s, 1, 2)>> \o CodePoints(SubSeq(s, 3, Len(s)))
    ELSE <<SubSeq(s, 1, 1)>> \o CodePoints(Tail(s))

\* The scalar value UTF-8 encodes for one iterated character: a pair is
\* combined, a lone surrogate is replaced by U+FFFD.
ScalarOf(cp) ==
  IF Len(cp) = 2 THEN 65536 + (Ord(cp[1]) - 55296) * 1024 + (Ord(cp[2]) - 56320)
  ELSE IF IsHighSurrogate(cp[1]) \/ IsLowSurrogate(cp[1]) THEN 65533
  ELSE Ord(cp[1])

Utf8OfScalar(n) ==
  IF n < 128 THEN <<n>>
  ELSE IF n < 2048 THEN <<192 + (n \div 64), 128 + (n % 64)>>
  ELSE IF n < 65536
    THEN <<224 + (n \div 4096), 128 + ((n \div 64) % 64), 128 + (n % 64)>>
    ELSE <<240 + (n \div 262144), 128 + ((n \div 4096) % 64),
           128 + ((n \div 64) % 64), 128 + (n % 64)>>

RECURSIVE Concat(_)
Concat(ss) == IF ss = <<>> THEN <<>> ELSE Head(ss) \o Concat(Tail(ss))

\* hash.update(value): a string is hashed as its UTF-8 bytes.
Utf8(s) ==
  LET cps == CodePoints(s)
  IN Concat([i \in 1..Len(cps) |-> Utf8OfScalar(ScalarOf(cps[i]))])

HexDigits == <<"0","1","2","3","4","5","6","7","8","9","a","b","c","d","e","f">>

\* crypto.createHash('sha256').update(value).digest('hex').  SHA-256 itself is
\* taken to be collision free (the service treats it as an infallible
\* identity): the digest stands for the bytes hashed, written in lowercase
\* hexadecimal, so two values get one digest exactly when their bytes agree.
sha256hex(value) ==
  LET bytes == Utf8(value)
  IN Concat([i \in 1..Len(bytes) |->
               <<HexDigits[(bytes[i] \div 16) + 1], HexDigits[(bytes[i] % 16) + 1]>>])

\* character_frequency_map[char] = (character_frequency_map[char] || 0) + 1
RECURSIVE Tally(_, _)
Tally(cps, m) ==
  IF cps = <<>> THEN m
  ELSE LET char == Head(cps)
       IN Tally(Tail(cps),
                IF char \in DOMAIN m THEN [m EXCEPT ![char] = @ + 1]
                ELSE m @@ (char :> 1))

EmptyObject == [k \in {} |-> 0]

\* value.toLowerCase() compared with its reverse (index.js).
IsPalindromePlain(value) ==
  LET lowerCaseValue == toLowerCase(value)
      reversedValue == Reverse(lowerCaseValue)
  IN lowerCaseValue = reversedValue

\* The sanitized comparison of the second copy of analyzeString.
IsPalindromeSanitized(value) ==
  LET sanitizedValue == StripNonAlnum(toLowerCase(value))
      reversedValue == Reverse(sanitizedValue)
  IN sanitizedValue = reversedValue

WordCount(value) == Len(FilterBoolean(SplitWhitespace(trim(value))))

Properties(value, is_palindrome) ==
  LET character_frequency_map == Tally(CodePoints(value), EmptyObject)
  IN [length |-> Len(value),
      is_palindrome |-> is_palindrome,
      unique_characters |-> Cardinality(DOMAIN character_frequency_map),
      word_count |-> WordCount(value),
      sha256_hash |-> sha256hex(value),
      character_frequency_map |-> character_frequency_map]

\* analyzeString of index.js
analyzeString(value) == Properties(value, IsPalindromePlain(value))

\* analyzeString of the second copy (its later declaration, the one in force)
analyzeStringSanitized(value) == Properties(value, IsPalindromeSanitized(value))

\* ------------------------------------------------- natural language parser
Palindromic == <<"p","a","l","i","n","d","r","o","m","i","c">>
Palindrome == <<"p","a","l","i","n","d","r","o","m","e">>
SingleWord == <<"s","i","n","g","l","e"," ","w","o","r","d">>
OneWord == <<"o","n","e"," ","w","o","r","d">>
LongerThan == <<"l","o","n","g","e","r"," ","t","h","a","n"," ">>
Contain == <<"c","o","n","t","a","i","n">>
Ing == <<"i","n","g">>
Ess == <<"s">>
The == <<" ","t","h","e"," ">>
Letter == <<"l","e","t","t","e","r">>
Character == <<"c","h","a","r","a","c","t","e","r">>
Space == <<" ">>
FirstVowel == <<"f","i","r","s","t"," ","v","o","w","e","l">>

\* The longest run of digits of s that starts at position i (\d+, greedy).
RECURSIVE DigitsFrom(_, _)
DigitsFrom(s, i) ==
  IF i <= Len(s) /\ IsDigit(s[i]) THEN <<s[i]>> \o DigitsFrom(s, i + 1) ELSE <<>>

NoMatch == [matched |-> FALSE, group |-> <<>>]

\* lowerQuery.match(/longer than (\d+)/): the leftmost match, its group 1.
MatchLongerThan(s) ==
  LET at == {i \in 1..Len(s) : HasAt(s, i, LongerThan) /\ DigitsFrom(s, i + Len(LongerThan)) # <<>>}
  IN IF at = {} THEN NoMatch
     ELSE LET i == CHOOSE j \in at : \A k \in at : j <= k
          IN [matched |-> TRUE, group |-> DigitsFrom(s, i + Len(LongerThan))]

ContainPrefixes ==
  {Contain \o a \o The \o b \o Space : a \in {Ing, Ess}, b \in {Letter, Character}}

\* lowerQuery.match(/contain(?:ing|s) the (?:letter|character) (\w)/)
MatchContains(s) ==
  LET hits == {h \in (1..Len(s)) \X ContainPrefixes :
                 /\ HasAt(s, h[1], h[2])
                 /\ h[1] + Len(h[2]) <= Len(s)
                 /\ IsWordChar(s[h[1] + Len(h[2])])}
  IN IF hits = {} THEN NoMatch
     ELSE LET h == CHOOSE x \in hits : \A y \in hits : x[1] <= y[1]
          IN [matched |-> TRUE, group |-> <<s[h[1] + Len(h[2])]>>]

\* parseInt(digits, 10) of a run of decimal digits
RECURSIVE ParseDigits(_)
ParseDigits(ds) ==
  IF ds = <<>> THEN 0
  ELSE 10 * ParseDigits(SubSeq(ds, 1, Len(ds) - 1)) + (IndexOf(Digits, ds[Len(ds)]) - 1)

\* filters.k = v
SetField(f, k, v) == [x \in DOMAIN f \cup {k} |-> IF x = k THEN v ELSE f[x]]

FirstVowelRule_Skipped(lowerQuery, filters) ==
  IF Includes(lowerQuery, FirstVowel) /\ "contains_character" \notin DOMAIN filters
    THEN SetField(filters, "contains_character", <<"a">>)
    ELSE filters

\* Rule 5
FirstVowelRule(lowerQuery, filters) ==
  IF Includes(lowerQuery, FirstVowel)
    THEN SetField(filters, "contains_character", <<"a">>)
    ELSE filters

parseNaturalLanguageQuery(query) ==
  LET lowerQuery == toLowerCase(query)
      f1 == IF Includes(lowerQuery, Palindromic) \/ Includes(lowerQuery, Palindrome)
              THEN SetField(EmptyObject, "is_palindrome", TRUE) ELSE EmptyObject
      f2 == IF Includes(lowerQuery, SingleWord) \/ Includes(lowerQuery, OneWord)
              THEN SetField(f1, "word_count", 1) ELSE f1
      minLengthMatch == MatchLongerThan(lowerQuery)
      f3 == IF minLengthMatch.matched /\ minLengthMatch.group # <<>>
              THEN SetField(f2, "min_length", ParseDigits(minLengthMatch.group) + 1)
              ELSE f2
      containsMatch == MatchContains(lowerQuery)
      f4 == IF containsMatch.matched /\ containsMatch.group # <<>>
              THEN SetField(f3, "contains_character", containsMatch.group)
              ELSE f3
  IN FirstVowelRule(lowerQuery, f4)

\* --------------------------------------------------------- shared constants
NoStore == <<>>
NoIndex == [v \in {} |-> <<>>]
NoLive == [v \in {} |-> <<>>]
NoResponse == [status |-> 0]
NoInflight == [value |-> <<>>, of |-> <<>>]

\* -------------------------------------------- SpecAnalyze: analyzeString alone
AnalyzeAlphabet == {" ", ",", "A", "a", "b", "<D83D>", "<DE00>"}

TextsOver(alphabet, n) == UNION {[1..k -> alphabet] : k \in 0..n}

InitAnalyze ==
  /\ stringsByHash = NoStore
  /\ hashByValue = NoIndex
  /\ now = 0
  /\ live = NoLive
  /\ request \in {[op |-> "input", value |-> v] : v \in TextsOver(AnalyzeAlphabet, MaxLen)}
  /\ response = NoResponse
  /\ inflight = NoInflight

Analyze ==
  /\ request.op = "input"
  /\ request' = [request EXCEPT !.op = "analyzeString"]
  /\ response' = [status |-> 1, properties |-> analyzeString(request.value)]
  /\ UNCHANGED <<stringsByHash, hashByValue, now, live>>

AnalyzeSanitized ==
  /\ request.op = "input"
  /\ request' = [request EXCEPT !.op = "analyzeStringSanitized"]
  /\ response' = [status |-> 1, properties |-> analyzeStringSanitized(request.value)]
  /\ UNCHANGED <<stringsByHash, hashByValue, now, live>>

NextAnalyze ==
  \/ Analyze /\ UNCHANGED inflight
  \/ AnalyzeSanitized /\ UNCHANGED inflight

SpecAnalyze == InitAnalyze /\ [][NextAnalyze]_vars

\* ------------------------------ SpecInterpret: parseNaturalLanguageQuery alone
Fragments ==
  { <<"S","i","n","g","l","e"," ","w","o","r","d"," ","P","a","l","i","n","d","r","o","m","e","s"," ">>,
    <<"p","a","l","i","n","d","r","o","m","i","c">>,
    <<"o","n","e"," ","w","o","r","d"," ">>,
    <<"l","o","n","g","e","r"," ","t","h","a","n"," ","1">>,
    <<"0">>,
    <<"c","o","n","t","a","i","n","i","n","g"," ","t","h","e"," ","l","e","t","t","e","r"," ">>,
    <<"C","o","n","t","a","i","n","s"," ","t","h","e"," ","c","h","a","r","a","c","t","e","r"," ">>,
    <<" ","f","i","r","s","t"," ","v","o","w","e","l">> }

Queries == {Concat(fs) : fs \in TextsOver(Fragments, MaxFrags)}

InitInterpret ==
  /\ stringsByHash = NoStore
  /\ hashByValue = NoIndex
  /\ now = 0
  /\ live = NoLive
  /\ request \in {[op |-> "input", query |-> q] : q \in Queries}
  /\ response = NoResponse
  /\ inflight = NoInflight

Interpret ==
  /\ request.op = "input"
  /\ request' = [request EXCEPT !.op = "parseNaturalLanguageQuery"]
  /\ response' = [status |-> 1, filters |-> parseNaturalLanguageQuery(request.query)]
  /\ UNCHANGED <<stringsByHash, hashByValue, now, live>>

NextInterpret == Interpret /\ UNCHANGED inflight

SpecInterpret == InitInterpret /\ [][NextInterpret]_vars

\* ------------------------------------------------ Spec: the service's store
\* A JSON value (the body's "value" field) or a query parameter: its type and,
\* by type, its boolean, number or text.
Json(type, bool, num, str) == [type |-> type, bool |-> bool, num |-> num, str |-> str]
Undefined == Json("undefined", FALSE, 0, <<>>)
Text(str) == Json("string", FALSE, 0, str)

\* !x
Falsy(j) ==
  \/ j.type \in {"undefined", "null"}
  \/ j.type = "boolean" /\ ~j.bool
  \/ j.type = "number" /\ j.num = 0
  \/ j.type = "string" /\ j.str = <<>>

\* typeof x === 'string'
IsString(j) == j.type = "string"

\* Map: set, has, get, delete, values() in insertion order
MapHas(m, k) == \E i \in DOMAIN m : m[i].key = k
MapGet(m, k) == m[CHOOSE i \in DOMAIN m : m[i].key = k].val
MapSet(m, k, v) ==
  IF MapHas(m, k)
    THEN [i \in DOMAIN m |-> IF m[i].key = k THEN [key |-> k, val |-> v] ELSE m[i]]
    ELSE Append(m, [key |-> k, val |-> v])
MapDelete(m, k) ==
  LET Other(e) == e.key # k IN SelectSeq(m, Other)
MapValues(m) == [i \in DOMAIN m |-> m[i].val]

IndexDelete_Keep(f, k) == f

\* The same Map operations on hashByValue, whose order nothing reads.
IndexSet(f, k, v) == [x \in DOMAIN f \cup {k} |-> IF x = k THEN v ELSE f[x]]
IndexDelete(f, k) == [x \in DOMAIN f \ {k} |-> f[x]]

Error(status, message) == [status |-> status, body |-> [error |-> message]]

ValueExists_Never(value) == FALSE

\* hashByValue.has(value)
ValueExists(value) == value \in DOMAIN hashByValue

\* The texts a create request carries in this model: the empty text, U+FFFD,
\* a lone high surrogate (JSON can spell it as an escape), and an ordinary
\* text of two words.
CreateTexts == { <<>>, <<"<FFFD>">>, <<"<D83D>">>, <<"A", " ", "b">> }

BodyValues ==
  {Undefined, Json("null", FALSE, 0, <<>>), Json("boolean", FALSE, 0, <<>>),
   Json("number", FALSE, 0, <<>>), Json("number", FALSE, 7, <<>>),
   Json("array", FALSE, 0, <<>>)}
  \cup {Text(t) : t \in CreateTexts}

\* A URL parameter is percent-decoded text: never empty (the route would not
\* match) and never a lone surrogate (no UTF-8 sequence decodes to one).
RECURSIVE IsWellFormed(_)
IsWellFormed(s) ==
  IF s = <<>> THEN TRUE
  ELSE IF IsHighSurrogate(s[1])
    THEN Len(s) >= 2 /\ IsLowSurrogate(s[2]) /\ IsWellFormed(SubSeq(s, 3, Len(s)))
    ELSE ~IsLowSurrogate(s[1]) /\ IsWellFormed(Tail(s))

UrlTexts == {t \in CreateTexts \cup {<<"z">>} : t # <<>> /\ IsWellFormed(t)}

\* POST /strings, answered when the clock reads time
PostStrings(value, time) ==
  /\ request' = [op |-> "create", value |-> value]
  /\ IF Falsy(value)
       THEN /\ response' = Error(400, "Missing \"value\" field in request body")
            /\ UNCHANGED <<stringsByHash, hashByValue, now, live>>
     ELSE IF ~IsString(value)
       THEN /\ response' = Error(422, "Invalid data type for \"value\", must be a string")
            /\ UNCHANGED <<stringsByHash, hashByValue, now, live>>
     ELSE IF ValueExists(value.str)
       THEN /\ response' = Error(409, "String already exists in the system")
            /\ UNCHANGED <<stringsByHash, hashByValue, now, live>>
     ELSE LET properties == analyzeString(value.str)
              id == properties.sha256_hash
              newStringData == [id |-> id, value |-> value.str,
                                properties |-> properties, created_at |-> time]
          IN /\ stringsByHash' = MapSet(stringsByHash, id, newStringData)
             /\ hashByValue' = IndexSet(hashByValue, value.str, id)
             /\ response' = [status |-> 201, body |-> newStringData]
             /\ live' = IndexSet(live, value.str, newStringData)
             /\ now' = time

\* !hash || !stringsByHash.has(hash), with hash = hashByValue.get(string_value)
Missing(string_value) ==
  \/ string_value \notin DOMAIN hashByValue
  \/ hashByValue[string_value] = <<>>
  \/ ~MapHas(stringsByHash, hashByValue[string_value])

\* GET /strings/:string_value
GetString(string_value) ==
  /\ request' = [op |-> "fetch", string_value |-> string_value]
  /\ IF Missing(string_value)
       THEN response' = Error(404, "String does not exist in the system")
       ELSE response' = [status |-> 200,
                         body |-> MapGet(stringsByHash, hashByValue[string_value])]
  /\ UNCHANGED <<stringsByHash, hashByValue, now, live>>

\* DELETE /strings/:string_value
DeleteString(string_value) ==
  /\ request' = [op |-> "delete", string_value |-> string_value]
  /\ IF Missing(string_value)
       THEN /\ response' = Error(404, "String does not exist in the system")
            /\ UNCHANGED <<stringsByHash, hashByValue, live>>
       ELSE /\ stringsByHash' = MapDelete(stringsByHash, hashByValue[string_value])
            /\ hashByValue' = IndexDelete(hashByValue, string_value)
            /\ response' = [status |-> 204, body |-> [error |-> ""]]
            /\ live' = IndexDelete(live, string_value)
  /\ UNCHANGED now

IsUnparsable_Never(filters) == FALSE

\* !filters || Object.keys(filters).length === 0
IsUnparsable(filters) == DOMAIN filters = {}

\* The four filters of the natural language route, applied in its order.
ApplyParsedFilters(records, filters) ==
  LET ByPalindrome(r) == r.properties.is_palindrome = filters.is_palindrome
      ByWordCount(r) == r.properties.word_count = filters.word_count
      ByMinLength(r) == r.properties.length >= filters.min_length
      ByCharacter(r) ==
        Includes(toLowerCase(r.value), toLowerCase(filters.contains_character))
      r1 == IF "is_palindrome" \in DOMAIN filters THEN SelectSeq(records, ByPalindrome) ELSE records
      r2 == IF "word_count" \in DOMAIN filters THEN SelectSeq(r1, ByWordCount) ELSE r1
      r3 == IF "min_length" \in DOMAIN filters THEN SelectSeq(r2, ByMinLength) ELSE r2
  IN IF "contains_character" \in DOMAIN filters /\ Len(filters.contains_character) > 0
       THEN SelectSeq(r3, ByCharacter) ELSE r3

\* The query parameter of the natural language route: absent, empty, repeated
\* (an array), or a text.
QueryInputs ==
  {Undefined, Text(<<>>), Json("array", FALSE, 0, <<>>),
   Text(<<"x">>),
   Text(Palindromic),
   Text(<<"O","n","e"," ","w","o","r","d"," ">> \o LongerThan \o <<"1">>),
   Text(Contain \o Ess \o The \o Letter \o <<" ","A">>)}

\* GET /strings/filter-by-natural-language
FilterByNaturalLanguage(query) ==
  /\ request' = [op |-> "filter-by-natural-language", query |-> query]
  /\ IF Falsy(query) \/ ~IsString(query)
       THEN response' = Error(400, "Missing or invalid \"query\" parameter")
     ELSE LET filters == parseNaturalLanguageQuery(query.str)
              results == ApplyParsedFilters(MapValues(stringsByHash), filters)
          IN IF IsUnparsable(filters)
               THEN response' = Error(400, "Unable to parse natural language query")
               ELSE response' = [status |-> 200,
                                 body |-> [data |-> results, count |-> Len(results),
                                           parsed_filters |-> filters]]
  /\ UNCHANGED <<stringsByHash, hashByValue, now, live>>

NaN == [nan |-> TRUE, n |-> 0]

parseInt_NaN(text) == NaN

\* parseInt(text, 10): leading whitespace and a sign are skipped, the digits
\* that follow are read, anything after them is ignored; no digit gives NaN.
parseInt(text) ==
  LET t == TrimStart(text)
      signed == t # <<>> /\ Head(t) \in {"+", "-"}
      digits == DigitsFrom(t, IF signed THEN 2 ELSE 1)
  IN IF digits = <<>> THEN NaN
     ELSE [nan |-> FALSE,
           n |-> IF signed /\ Head(t) = "-" THEN 0 - ParseDigits(digits)
                 ELSE ParseDigits(digits)]

True == <<"t","r","u","e">>

ListFields == {"is_palindrome", "min_length", "max_length", "word_count", "contains_character"}

\* The query parameters of GET /strings in this model, each absent or a text,
\* no more than two of them given in one request.
ListQueries ==
  {q \in [is_palindrome : {Undefined, Text(True), Text(<<"y","e","s">>)},
          min_length : {Undefined, Text(<<"2">>), Text(<<"x">>)},
          max_length : {Undefined, Text(<<"2">>)},
          word_count : {Undefined, Text(<<"1">>)},
          contains_character : {Undefined, Text(<<"a">>)}] :
     Cardinality({k \in ListFields : q[k] # Undefined}) <= 2}

\* GET /strings
ListStrings(query) ==
  LET all == MapValues(stringsByHash)
      isPalindrome == query.is_palindrome.str = True
      minLength == parseInt(query.min_length.str)
      maxLength == parseInt(query.max_length.str)
      wordCount == parseInt(query.word_count.str)
      char == query.contains_character.str
      ByPalindrome(r) == r.properties.is_palindrome = isPalindrome
      ByMinLength(r) == r.properties.length >= minLength.n
      ByMaxLength(r) == r.properties.length <= maxLength.n
      ByWordCount(r) == r.properties.word_count = wordCount.n
      ByCharacter(r) == Includes(r.value, char)
      usePalindrome == ~Falsy(query.is_palindrome)
      useMinLength == ~Falsy(query.min_length) /\ ~minLength.nan
      useMaxLength == ~Falsy(query.max_length) /\ ~maxLength.nan
      useWordCount == ~Falsy(query.word_count) /\ ~wordCount.nan
      useCharacter == ~Falsy(query.contains_character)
      r1 == IF usePalindrome THEN SelectSeq(all, ByPalindrome) ELSE all
      r2 == IF useMinLength THEN SelectSeq(r1, ByMinLength) ELSE r1
      r3 == IF useMaxLength THEN SelectSeq(r2, ByMaxLength) ELSE r2
      r4 == IF useWordCount THEN SelectSeq(r3, ByWordCount) ELSE r3
      results == IF useCharacter THEN SelectSeq(r4, ByCharacter) ELSE r4
      f1 == IF usePalindrome THEN SetField(EmptyObject, "is_palindrome", isPalindrome)
            ELSE EmptyObject
      f2 == IF useMinLength THEN SetField(f1, "min_length", minLength.n) ELSE f1
      f3 == IF useMaxLength THEN SetField(f2, "max_length", maxLength.n) ELSE f2
      f4 == IF useWordCount THEN SetField(f3, "word_count", wordCount.n) ELSE f3
      filters_applied == IF useCharacter THEN SetField(f4, "contains_character", char) ELSE f4
  IN /\ request' = [op |-> "list", query |-> query]
     /\ response' = [status |-> 200,
                     body |-> [data |-> results, count |-> Len(results),
                               filters_applied |-> filters_applied]]
     /\ UNCHANGED <<stringsByHash, hashByValue, now, live>>

Init ==
  /\ stringsByHash = NoStore
  /\ hashByValue = NoIndex
  /\ now = 0
  /\ request = [op |-> "none"]
  /\ response = NoResponse
  /\ inflight = NoInflight
  /\ live = NoLive

Next ==
  \/ \E value \in BodyValues, time \in now..MaxClock :
       PostStrings(value, time) /\ UNCHANGED inflight
  \/ \E string_value \in UrlTexts : GetString(string_value) /\ UNCHANGED inflight
  \/ \E string_value \in UrlTexts : DeleteString(string_value) /\ UNCHANGED inflight
  \/ \E query \in QueryInputs : FilterByNaturalLanguage(query) /\ UNCHANGED inflight
  \/ \E query \in ListQueries : ListStrings(query) /\ UNCHANGED inflight

Spec == Init /\ [][Next]_vars

\* ------------------------------ SpecList: the two listing routes over a store
MaxStored == 3   \* most records in the store SpecList starts from

\* The values stored in SpecList: of lengths 3, 3, 2 and 1, of two words and
\* of one, palindromes and not, with "a", with "A" and with neither.
ListTexts == { <<"A", " ", "b">>, <<"a", "b", "a">>, <<"a", "b">>, <<"b">> }

\* newStringData of a create of value answered when the clock reads 0
RecordOf(value) ==
  LET properties == analyzeString(value)
  IN [id |-> properties.sha256_hash, value |-> value,
      properties |-> properties, created_at |-> 0]

\* The orders in which distinct values can have been created.
Creations ==
  {o \in TextsOver(ListTexts, MaxStored) : \A i, j \in DOMAIN o : o[i] = o[j] => i = j}

\* The store after the creates of o, none of them deleted.
InitList ==
  /\ \E o \in Creations :
       /\ stringsByHash = [i \in DOMAIN o |-> [key |-> RecordOf(o[i]).id, val |-> RecordOf(o[i])]]
       /\ hashByValue = [v \in Range(o) |-> RecordOf(v).id]
       /\ live = [v \in Range(o) |-> RecordOf(v)]
  /\ now = 0
  /\ request = [op |-> "none"]
  /\ response = NoResponse
  /\ inflight = NoInflight

False == <<"f","a","l","s","e">>

\* The query parameters of GET /strings in SpecList: each absent, well-formed
\* or malformed, in every combination.
ExplicitQueries ==
  [is_palindrome : {Undefined, Text(True), Text(False), Text(<<"y","e","s">>)},
   min_length : {Undefined, Text(<<"2">>), Text(<<"x">>)},
   max_length : {Undefined, Text(<<"2">>)},
   word_count : {Undefined, Text(<<"1">>)},
   contains_character : {Undefined, Text(<<"a">>)}]

\* The query parameter of the natural language route in SpecList.
SpokenQueries ==
  {Text(<<"x">>),
   Text(Palindromic),
   Text(Contain \o Ess \o The \o Letter \o <<" ","A">>)}

NextList ==
  \/ \E query \in ExplicitQueries : ListStrings(query) /\ UNCHANGED inflight
  \/ \E query \in SpokenQueries : FilterByNaturalLanguage(query) /\ UNCHANGED inflight

SpecList == InitList /\ [][NextList]_vars

\* ----------- SpecConcurrent: clients racing on one value, one event loop
MaxClients == 4   \* requests for the one value that are in flight together

Clients == 1..MaxClients

Waiting == [pc |-> "waiting", op |-> "none", status |-> 0]

\* No request has arrived; the value every request will name is settled.
InitConcurrent ==
  /\ stringsByHash = NoStore
  /\ hashByValue = NoIndex
  /\ now = 0
  /\ request = [op |-> "none"]
  /\ response = NoResponse
  /\ live = NoLive
  /\ \E v \in UrlTexts : inflight = [value |-> v, of |-> [c \in Clients |-> Waiting]]

\* The request of client c arrives and is queued for its route's handler.
Arrive(c, op) ==
  /\ inflight.of[c].pc = "waiting"
  /\ inflight' = [inflight EXCEPT !.of[c] = [pc |-> "queued", op |-> op, status |-> 0]]
  /\ UNCHANGED <<stringsByHash, hashByValue, now, request, response, live>>

\* The handler has run from its first line to its res.status(...) call.
Answered(c) ==
  [inflight EXCEPT !.of[c] = [@ EXCEPT !.pc = "answered", !.status = response'.status]]

\* The event loop calls a handler with a queued request.  No handler awaits
\* anything, so it runs to its response before the loop takes the next one.
HandleCreate(c) ==
  /\ inflight.of[c].pc = "queued"
  /\ inflight.of[c].op = "create"
  /\ \E time \in now..MaxClock : PostStrings(Text(inflight.value), time)
  /\ inflight' = Answered(c)

HandleFetch(c) ==
  /\ inflight.of[c].pc = "queued"
  /\ inflight.of[c].op = "fetch"
  /\ GetString(inflight.value)
  /\ inflight' = Answered(c)

HandleDelete(c) ==
  /\ inflight.of[c].pc = "queued"
  /\ inflight.of[c].op = "delete"
  /\ DeleteString(inflight.value)
  /\ inflight' = Answered(c)

NextConcurrent ==
  \/ \E c \in Clients, op \in {"create", "fetch", "delete"} : Arrive(c, op)
  \/ \E c \in Clients : HandleCreate(c)
  \/ \E c \in Clients : HandleFetch(c)
  \/ \E c \in Clients : HandleDelete(c)

SpecConcurrent == InitConcurrent /\ [][NextConcurrent]_vars

\* ------------------------------------------------------------ the claims
Analyzed == request.op = "analyzeString"

\* The value lowercased, with everything but ASCII letters and digits removed.
SanitizedText(v) ==
  LET l == toLowerCase(v)
      keep == {i \in 1..Len(l) : IsLowerAlnum(l[i])}
      Nth(k) == CHOOSE i \in keep : Cardinality({j \in keep : j <= i}) = k
  IN [k \in 1..Cardinality(keep) |-> l[Nth(k)]]

ReadsSameBothWays(t) == \A i \in 1..Len(t) : t[i] = t[Len(t) + 1 - i]

\* C6: for every text, analyzeString(value).is_palindrome is true exactly when
\* the value, lowercased and stripped of every character that is not an ASCII
\* letter or digit, equals its own reverse.
C6_PalindromeIgnoresCaseAndPunctuation ==
  Analyzed =>
    (response.properties.is_palindrome <=> ReadsSameBothWays(SanitizedText(request.value)))

RECURSIVE SumOfCounts(_)
SumOfCounts(m) ==
  IF DOMAIN m = {} THEN 0
  ELSE LET k == CHOOSE x \in DOMAIN m : TRUE
       IN m[k] + SumOfCounts([x \in DOMAIN m \ {k} |-> m[x]])

\* The number of characters (code points) of a text: every code unit counts
\* but the low half of a surrogate pair.
CountCodePoints(v) ==
  Cardinality({i \in 1..Len(v) :
     ~(i > 1 /\ IsLowSurrogate(v[i]) /\ IsHighSurrogate(v[i - 1]))})

\* C7: for every text, unique_characters is the number of keys of
\* character_frequency_map, the counts of the map add up to length, and length
\* is the number of characters (code points) of the value.
C7_FrequencyMapAddsUpToLength ==
  Analyzed =>
    LET p == response.properties
    IN /\ p.unique_characters = Cardinality(DOMAIN p.character_frequency_map)
       /\ SumOfCounts(p.character_frequency_map) = p.length
       /\ p.length = CountCodePoints(request.value)

\* The number of maximal runs of non-whitespace characters: the positions that
\* hold a non-whitespace character and start the text or follow whitespace.
RunsOfNonWhitespace(v) ==
  Cardinality({i \in 1..Len(v) :
     ~IsWhitespace(v[i]) /\ (i = 1 \/ IsWhitespace(v[i - 1]))})

\* C8: for every text, word_count is the number of maximal runs of
\* non-whitespace characters of the value; "" and whitespace-only texts give 0.
C8_WordCountIsRunsOfNonWhitespace ==
  Analyzed => response.properties.word_count = RunsOfNonWhitespace(request.value)

\* Two words around a doubled space were counted.
C8_Witness ==
  /\ Analyzed
  /\ \E i \in 2..(Len(request.value) - 2) :
       /\ IsWhitespace(request.value[i]) /\ IsWhitespace(request.value[i + 1])
       /\ ~IsWhitespace(request.value[i - 1]) /\ ~IsWhitespace(request.value[i + 2])
  /\ response.properties.word_count = 2

Interpreted == request.op = "parseNaturalLanguageQuery"

SaysPalindrome(l) == Includes(l, Palindrome) \/ Includes(l, Palindromic)
SaysOneWord(l) == Includes(l, SingleWord) \/ Includes(l, OneWord)
SaysFirstVowel(l) == Includes(l, FirstVowel)

\* Where "longer than " stands right before a digit.
LongerThanAt(l) ==
  {i \in 1..Len(l) : /\ HasAt(l, i, LongerThan)
                     /\ i + Len(LongerThan) <= Len(l)
                     /\ IsDigit(l[i + Len(LongerThan)])}

RECURSIVE DecimalValue(_, _)
DecimalValue(ds, acc) ==
  IF ds = <<>> THEN acc
  ELSE DecimalValue(Tail(ds), 10 * acc + (Ord(Head(ds)) - 48))

\* The N of the first "longer than N".
LongerThanN(l) ==
  LET i == CHOOSE j \in LongerThanAt(l) : \A k \in LongerThanAt(l) : j <= k
      first == i + Len(LongerThan)
      last == CHOOSE e \in first..Len(l) :
                /\ \A k \in first..e : IsDigit(l[k])
                /\ e = Len(l) \/ ~IsDigit(l[e + 1])
  IN DecimalValue(SubSeq(l, first, last), 0)

\* Where "contain(s|ing) the (letter|character) " stands right before a word
\* character, with the position of that character.
ContainsAt(l) ==
  {h \in {<<i, i + Len(p)>> : i \in 1..Len(l), p \in {q \in ContainPrefixes : Includes(l, q)}} :
     /\ h[2] <= Len(l)
     /\ \E p \in ContainPrefixes : HasAt(l, h[1], p) /\ h[2] = h[1] + Len(p)
     /\ IsWordChar(l[h[2]])}

ContainsC(l) ==
  LET h == CHOOSE x \in ContainsAt(l) : \A y \in ContainsAt(l) : x[1] <= y[1]
  IN <<l[h[2]]>>

\* C9: parseNaturalLanguageQuery applies the five rules independently to the
\* lowercased query and returns exactly the fields whose rule fired:
\* is_palindrome = true, word_count = 1, min_length = N + 1,
\* contains_character = C, and contains_character = 'a' for "first vowel",
\* which wins over C; a query no rule matches gives the empty object.
C9_EveryFiredRuleSetsItsField ==
  Interpreted =>
    LET l == toLowerCase(request.query)
        f == response.filters
    IN /\ DOMAIN f \subseteq {"is_palindrome", "word_count", "min_length", "contains_character"}
       /\ ("is_palindrome" \in DOMAIN f) <=> SaysPalindrome(l)
       /\ SaysPalindrome(l) => f.is_palindrome = TRUE
       /\ ("word_count" \in DOMAIN f) <=> SaysOneWord(l)
       /\ SaysOneWord(l) => f.word_count = 1
       /\ ("min_length" \in DOMAIN f) <=> (LongerThanAt(l) # {})
       /\ LongerThanAt(l) # {} => f.min_length = LongerThanN(l) + 1
       /\ ("contains_character" \in DOMAIN f) <=> (ContainsAt(l) # {} \/ SaysFirstVowel(l))
       /\ SaysFirstVowel(l) => f.contains_character = <<"a">>
       /\ (ContainsAt(l) # {} /\ ~SaysFirstVowel(l)) => f.contains_character = ContainsC(l)

\* All five rules fired on one query, and the letter the fourth rule found
\* (not an 'a') was replaced by the fifth rule's 'a'.
C9_Witness ==
  /\ Interpreted
  /\ LET l == toLowerCase(request.query)
     IN /\ SaysPalindrome(l) /\ SaysOneWord(l) /\ LongerThanAt(l) # {}
        /\ ContainsAt(l) # {} /\ ContainsC(l) # <<"a">> /\ SaysFirstVowel(l)
  /\ DOMAIN response.filters = {"is_palindrome", "word_count", "min_length", "contains_character"}
  /\ response.filters.contains_character = <<"a">>
  /\ response.filters.min_length = 2

StoredRecords == MapValues(stringsByHash)

StoreUnchanged == stringsByHash' = stringsByHash /\ hashByValue' = hashByValue

\* C1: in every reachable state the two indexes agree (hashByValue maps v to
\* an id exactly when stringsByHash holds, under that id, a record whose value
\* is v), every stored record's id is its properties.sha256_hash and the
\* digest of its value, no two stored records share a value, and a record is
\* the one its create returned for as long as it has not been deleted.
C1_IndexesAgreeAndRecordsAreImmutable ==
  /\ \A v \in DOMAIN hashByValue :
       /\ MapHas(stringsByHash, hashByValue[v])
       /\ MapGet(stringsByHash, hashByValue[v]).value = v
  /\ \A i \in DOMAIN stringsByHash :
       LET e == stringsByHash[i]
       IN /\ e.val.value \in DOMAIN hashByValue
          /\ hashByValue[e.val.value] = e.key
          /\ e.key = e.val.id
          /\ e.val.id = e.val.properties.sha256_hash
          /\ e.val.id = sha256hex(e.val.value)
          /\ \A j \in DOMAIN stringsByHash : stringsByHash[j].val.value = e.val.value => j = i
  /\ \A v \in DOMAIN live :
       /\ v \in DOMAIN hashByValue
       /\ MapHas(stringsByHash, hashByValue[v])
       /\ MapGet(stringsByHash, hashByValue[v]) = live[v]

\* C2: from a successful create of v until v is deleted, every fetch of v
\* returns the record that create returned and a second create of v is a
\* conflict; once v is deleted (or while it was never created), a fetch of v
\* is not-found.
C2_FetchReturnsWhatCreateReturned ==
  [][/\ (request'.op = "fetch" /\ request'.string_value \in DOMAIN live)
          => (response'.status = 200 /\ response'.body = live[request'.string_value])
     /\ (request'.op = "fetch" /\ request'.string_value \notin DOMAIN live)
          => response'.status = 404
     /\ (request'.op = "create" /\ IsString(request'.value)
           /\ request'.value.str \in DOMAIN live)
          => response'.status = 409]_vars

\* C3: a create request for a value that is already stored is answered 409
\* (AlreadyExists) and leaves both indexes as they were: the stored record,
\* its created_at included, is not replaced and no record is added.
C3_CreateOfStoredValueConflicts ==
  [][(request'.op = "create" /\ IsString(request'.value)
        /\ request'.value.str \in DOMAIN hashByValue)
       => (/\ response' = Error(409, "String already exists in the system")
           /\ StoreUnchanged
           /\ live' = live)]_vars

\* A create was refused as a conflict at a later time than the stored record's
\* created_at, which the record still carries.
C3_Witness ==
  /\ request.op = "create"
  /\ response.status = 409
  /\ request.value.str \in DOMAIN hashByValue
  /\ MapHas(stringsByHash, hashByValue[request.value.str])
  /\ MapGet(stringsByHash, hashByValue[request.value.str]).value = request.value.str
  /\ MapGet(stringsByHash, hashByValue[request.value.str]).created_at < now

\* C4: a delete of a stored value v succeeds with an empty response and removes
\* v's entry from both indexes while every other stored record, and every
\* other entry of the value index, stays as it was; a delete of a value that is
\* not stored is answered 404 and leaves both indexes unchanged.
C4_DeleteRemovesOnlyItsRecord ==
  [][request'.op = "delete" =>
       LET v == request'.string_value
       IN IF v \in DOMAIN hashByValue
            THEN /\ response'.status = 204
                 /\ v \notin DOMAIN hashByValue'
                 /\ \A i \in DOMAIN stringsByHash' : stringsByHash'[i].val.value # v
                 /\ ~MapHas(stringsByHash', sha256hex(v))
                 /\ \A w \in DOMAIN hashByValue \ {v} :
                      w \in DOMAIN hashByValue' /\ hashByValue'[w] = hashByValue[w]
                 /\ \A i \in DOMAIN stringsByHash :
                      stringsByHash[i].val.value # v
                        => \E j \in DOMAIN stringsByHash' : stringsByHash'[j] = stringsByHash[i]
            ELSE /\ response'.status = 404
                 /\ StoreUnchanged]_vars

\* C5: a create request without a value is answered 400 (MissingInput), one
\* whose value is present but not text (a number, boolean, null, array or
\* object) is answered 422 (InvalidType), and neither changes the store.
C5_BadCreateInputIsClassifiedByKind ==
  [][request'.op = "create" =>
       /\ request'.value.type = "undefined" => (response'.status = 400 /\ StoreUnchanged)
       /\ request'.value.type \notin {"undefined", "string"}
            => (response'.status = 422 /\ StoreUnchanged)]_vars

AnyRuleFires(l) ==
  \/ SaysPalindrome(l) \/ SaysOneWord(l) \/ SaysFirstVowel(l)
  \/ LongerThanAt(l) # {} \/ ContainsAt(l) # {}

\* A record satisfies every predicate the interpreted filters hold.
SatisfiesParsed(r, f) ==
  /\ "is_palindrome" \in DOMAIN f => r.properties.is_palindrome = f.is_palindrome
  /\ "word_count" \in DOMAIN f => r.properties.word_count = f.word_count
  /\ "min_length" \in DOMAIN f => r.properties.length >= f.min_length
  /\ "contains_character" \in DOMAIN f =>
       \E i \in 1..Len(r.value) : LowerChar(r.value[i]) = f.contains_character[1]

\* s holds exactly the records of t that satisfy f, in t's order.
IsOrderedSelection(s, t, f) ==
  /\ \A i \in DOMAIN s : SatisfiesParsed(s[i], f) /\ \E j \in DOMAIN t : t[j] = s[i]
  /\ \A j \in DOMAIN t : SatisfiesParsed(t[j], f) => \E i \in DOMAIN s : s[i] = t[j]
  /\ \A i1, i2 \in DOMAIN s : i1 < i2 =>
       \E j1, j2 \in DOMAIN t : j1 < j2 /\ t[j1] = s[i1] /\ t[j2] = s[i2]

\* C10: the natural language route answers 400 when the query is missing (or
\* not a text), 400 "unable to parse" exactly when the interpreter yields no
\* predicate, and otherwise, that is whenever a rule fires, 200 with the
\* matching records, their count and the interpreted filters; the store is
\* unchanged in every case.
C10_UnparsableExactlyWhenNoRuleFires ==
  [][request'.op = "filter-by-natural-language" =>
       LET q == request'.query
           l == toLowerCase(q.str)
           f == response'.body.parsed_filters
       IN /\ StoreUnchanged
          /\ (q.type # "string" \/ q.str = <<>>)
               => response' = Error(400, "Missing or invalid \"query\" parameter")
          /\ (q.type = "string" /\ q.str # <<>>) =>
               /\ response'.status \in {200, 400}
               /\ (response' = Error(400, "Unable to parse natural language query"))
                    <=> (parseNaturalLanguageQuery(q.str) = EmptyObject)
               /\ response'.status = 200 <=> AnyRuleFires(l)
               /\ response'.status = 200 =>
                    /\ f = parseNaturalLanguageQuery(q.str)
                    /\ IsOrderedSelection(response'.body.data, StoredRecords, f)
                    /\ response'.body.count = Len(response'.body.data)]_vars

\* A query was interpreted and kept some of the stored records, not all.
C10_Witness ==
  /\ request.op = "filter-by-natural-language"
  /\ response.status = 200
  /\ response.body.count > 0
  /\ response.body.count < Len(stringsByHash)
  /\ "contains_character" \in DOMAIN response.body.parsed_filters

\* A query parameter is given when the request carries it at all.
Given(q, k) == q[k].type # "undefined"

\* A count parameter is well-formed when it is a decimal numeral.
IsNumeral(j) ==
  j.type = "string" /\ j.str # <<>> /\ \A i \in DOMAIN j.str : IsDigit(j.str[i])

IsBooleanWord(j) == j.type = "string" /\ j.str \in {True, False}

IsWellFormedField(q, k) ==
  CASE k = "is_palindrome" -> IsBooleanWord(q[k])
    [] k \in {"min_length", "max_length", "word_count"} -> IsNumeral(q[k])
    [] k = "contains_character" -> q[k].type = "string" /\ q[k].str # <<>>

\* sub stands somewhere in s, letter for letter.
ContainsVerbatim(s, sub) ==
  \E i \in 1..(Len(s) - Len(sub) + 1) : SubSeq(s, i, i + Len(sub) - 1) = sub

\* The record satisfies the predicate of field k of the query.
SatisfiesField(r, q, k) ==
  CASE k = "is_palindrome" -> r.properties.is_palindrome = (q[k].str = True)
    [] k = "min_length" -> r.properties.length >= DecimalValue(q[k].str, 0)
    [] k = "max_length" -> r.properties.length <= DecimalValue(q[k].str, 0)
    [] k = "word_count" -> r.properties.word_count = DecimalValue(q[k].str, 0)
    [] k = "contains_character" -> ContainsVerbatim(r.value, q[k].str)

\* s holds exactly the records of t that satisfy the fields ks of q, each
\* once and in t's order.
IsSelectionBy(s, t, q, ks) ==
  /\ \A i \in DOMAIN s :
       /\ \A k \in ks : SatisfiesField(s[i], q, k)
       /\ \E j \in DOMAIN t : t[j] = s[i]
  /\ \A j \in DOMAIN t :
       (\A k \in ks : SatisfiesField(t[j], q, k)) => \E i \in DOMAIN s : s[i] = t[j]
  /\ \A i1, i2 \in DOMAIN s : i1 < i2 =>
       \E j1, j2 \in DOMAIN t : j1 < j2 /\ t[j1] = s[i1] /\ t[j2] = s[i2]

GivenFields(q) == {k \in ListFields : Given(q, k)}

\* C11: a listing whose given fields are all well-formed returns exactly the
\* stored records that satisfy every given predicate (is_palindrome equal,
\* length >= min_length, length <= max_length, word_count equal, value
\* contains contains_character), an absent field constrains nothing, the
\* matches come once each in the store's order, and count is their number.
C11_ListingReturnsExactlyTheMatchesInOrder ==
  [][(/\ request'.op = "list"
      /\ \A k \in GivenFields(request'.query) : IsWellFormedField(request'.query, k))
       => LET q == request'.query
              data == response'.body.data
          IN /\ response'.status = 200
             /\ IsSelectionBy(data, StoredRecords, q, GivenFields(q))
             /\ response'.body.count = Len(data)
             /\ response'.body.count =
                  Cardinality({j \in DOMAIN StoredRecords :
                                 \A k \in GivenFields(q) : SatisfiesField(StoredRecords[j], q, k)})]_vars

\* A listing with three well-formed fields kept the first and the last of
\* three stored records, in that order, and dropped the one between them.
C11_Witness ==
  /\ request.op = "list"
  /\ Cardinality(GivenFields(request.query)) = 3
  /\ \A k \in GivenFields(request.query) : IsWellFormedField(request.query, k)
  /\ Len(stringsByHash) = 3
  /\ response.body.count = 2
  /\ response.body.data = <<stringsByHash[1].val, stringsByHash[3].val>>

WellFormedFields(q) == {k \in GivenFields(q) : IsWellFormedField(q, k)}

\* C12: a listing never fails, and a given field whose value is malformed (a
\* min_length, max_length or word_count that is no number, an is_palindrome
\* that is neither 'true' nor 'false') constrains nothing and is left out of
\* filters_applied: the echo holds exactly the given, well-formed fields and
\* the data is what the well-formed fields alone select.
C12_MalformedFieldsAreIgnored ==
  [][request'.op = "list" =>
       LET q == request'.query
       IN /\ response'.status = 200
          /\ DOMAIN response'.body.filters_applied = WellFormedFields(q)
          /\ IsSelectionBy(response'.body.data, StoredRecords, q, WellFormedFields(q))]_vars

\* C13: contains_character = c selects the same set of records on both
\* routes: a listing by contains_character = c alone and, over the same
\* store, a natural language query interpreted as contains_character = c
\* alone return the same records.
C13_ContainsCharacterAgreesOnBothRoutes ==
  [][(/\ request.op = "list"
      /\ GivenFields(request.query) = {"contains_character"}
      /\ request'.op = "filter-by-natural-language"
      /\ response'.status = 200
      /\ DOMAIN response'.body.parsed_filters = {"contains_character"}
      /\ response'.body.parsed_filters.contains_character
           = request.query.contains_character.str
      /\ StoreUnchanged)
       => Range(response'.body.data) = Range(response.body.data)]_vars

\* The answered requests of the given kind that got the given status.
AnsweredWith(op, status) ==
  {c \in Clients : /\ inflight.of[c].pc = "answered"
                   /\ inflight.of[c].op = op
                   /\ inflight.of[c].status = status}

InValueIndex(v) == v \in DOMAIN hashByValue
InRecordIndex(v) == \E i \in DOMAIN stringsByHash : stringsByHash[i].val.value = v

\* C14: however the creates, fetches and deletes of one value v interleave,
\* every handler acts as one step: the creates that succeeded are at most one
\* more than the deletes that succeeded and never fewer (so between two
\* deletes one create at most succeeds, and no delete succeeds twice for one
\* creation), every other create is a conflict and every other delete or
\* fetch a not-found or a hit, and v is in both indexes or in neither.
C14_HandlersOfOneValueAreAtomic ==
  LET v == inflight.value
      created == Cardinality(AnsweredWith("create", 201))
      deleted == Cardinality(AnsweredWith("delete", 204))
  IN /\ created - deleted \in {0, 1}
     /\ InValueIndex(v) <=> created - deleted = 1
     /\ InRecordIndex(v) <=> InValueIndex(v)
     /\ \A c \in Clients : inflight.of[c].pc = "answered" =>
          inflight.of[c].status \in
            CASE inflight.of[c].op = "create" -> {201, 409}
              [] inflight.of[c].op = "fetch" -> {200, 404}
              [] inflight.of[c].op = "delete" -> {204, 404}

\* Two creates and two deletes of the value were answered: one create
\* succeeded and the other was a conflict, one delete succeeded and the other
\* found nothing.
C14_Witness ==
  /\ Cardinality(AnsweredWith("create", 201)) = 1
  /\ Cardinality(AnsweredWith("create", 409)) = 1
  /\ Cardinality(AnsweredWith("delete", 204)) = 1
  /\ Cardinality(AnsweredWith("delete", 404)) = 1
  /\ ~InValueIndex(inflight.value)

====
